---- MODULE Spec2Model ----
(***************************************************************************)
(* Model of Sefaria/ne_span: the Document/Span tree of                     *)
(* src/src/ne_span/ne_span.py and its label enumerations.                  *)
(*                                                                         *)
(* A text is a sequence of one-character strings.  Python's None is the    *)
(* empty tuple << >> and a present value v is the one-element tuple <<v>>. *)
(***************************************************************************)
EXTENDS Integers, Sequences, FiniteSets, TLC

\* ------------------------------------------------------------ bounds

\* Spec: most objects (Documents and Spans together) ever built.
MaxObjs == 2
\* SpecSlice: most objects, the Document and its first Span included.
MaxSliceObjs == 3
\* SpecHash: most objects, the two Documents and their Spans included.
MaxHashObjs == 5
\* SpecNest: deepest chain Document <- S1 <- ... <- Sn.
MaxDepth == 3
\* SpecWords: most objects, and the longest Document text.
MaxWordObjs == 3
MaxLen == 3
\* Largest character offset / word index passed in a slice.
MaxOff == 3

\* ------------------------------------------------------------ inputs

None == << >>
Some(v) == << v >>

Alphabet == {"a", " "}

RECURSIVE StringsOfLen(_)
StringsOfLen(n) ==
    IF n = 0 THEN {<< >>}
    ELSE {Append(s, c) : s \in StringsOfLen(n - 1), c \in Alphabet}

\* Every text of letters and spaces of at most MaxLen characters.
Texts == UNION {StringsOfLen(n) : n \in 0..MaxLen}

\* Slice bounds: omitted, negative, in range and past the end.
Offsets == {None} \cup {Some(k) : k \in (-1)..MaxOff}

Labels == {None, Some("title")}

\* ------------------------------------------------------------ Python slicing

\* PySlice_AdjustIndices for step 1: one bound k of a slice over n items.
AdjustIndex(k, n) ==
    IF k < 0 THEN (IF k + n < 0 THEN 0 ELSE k + n)
    ELSE IF k > n THEN n ELSE k

\* s[a:b] for integers a, b.
PySlice(s, a, b) ==
    LET lo == AdjustIndex(a, Len(s))
        hi == AdjustIndex(b, Len(s))
    IN  IF lo < hi THEN SubSeq(s, lo + 1, hi) ELSE << >>

\* s[slice(a, b)] where a and b may be None.
GetItem(s, a, b) ==
    PySlice(s, IF a = None THEN 0 ELSE a[1], IF b = None THEN Len(s) ELSE b[1])

\* ------------------------------------------------------------ state

VARIABLES
    objs,       \* the objects built so far, in construction order
    word_spans, \* per object: the cached_property __word_spans (None: unset)
    tok_calls,  \* per object: calls of TOKENIZER made on its behalf
    ret         \* the last call: operation, receiver, arguments, outcome

vars == << objs, word_spans, tok_calls, ret >>

IsDoc(o) == o.kind = "NEDoc"
IsSpan(o) == o.kind = "NESpan"

\* NEDoc.text / NESpan.text of object i of the object list os.
RECURSIVE text(_, _)
\* Mutant: the Span's slice takes one character too many.
text_InclusiveEnd(os, i) ==
    IF IsDoc(os[i]) THEN os[i].text
    ELSE PySlice(text(os, os[i].doc), os[i].start, os[i].end + 1)

text(os, i) ==
    IF IsDoc(os[i]) THEN os[i].text
    ELSE PySlice(text(os, os[i].doc), os[i].start, os[i].end)

\* NESpan.__init__: start "or 0", end defaults to len(doc.text).
NESpanInit(os, doc, start, end, label) ==
    [kind  |-> "NESpan",
     doc   |-> doc,
     start |-> IF start = None THEN 0 ELSE start[1],
     end   |-> IF end # None THEN end[1] ELSE Len(text(os, doc)),
     label |-> label]

\* NEDoc.__init__
NEDocInit(t) == [kind |-> "NEDoc", text |-> t]

Returned(op, self, args, val) ==
    [op |-> op, self |-> self, args |-> args, exc |-> "none", val |-> val]

Raised(op, self, args, exc, msg) ==
    [op |-> op, self |-> self, args |-> args, exc |-> exc, val |-> msg]

\* The new object is appended; nothing is cached for it yet.
Build(o) ==
    /\ objs' = Append(objs, o)
    /\ word_spans' = Append(word_spans, None)
    /\ tok_calls' = Append(tok_calls, 0)

\* NEDoc(text)
NewDoc(t) ==
    /\ Build(NEDocInit(t))
    /\ ret' = Returned("NEDoc", 0, << t >>, Len(objs) + 1)

\* Mutant: "end = item.stop or None", so an end of 0 counts as omitted.
subspan_StopOrNone(self, item, span_label) ==
    /\ item.is_slice
    /\ Build(NESpanInit(objs, self, item.start,
                        IF item.stop = Some(0) THEN None ELSE item.stop,
                        span_label))
    /\ ret' = Returned("subspan", self, << item, span_label >>, Len(objs) + 1)

\* _Subspannable.subspan(item, span_label)
subspan(self, item, span_label) ==
    /\ IF item.is_slice
       THEN LET start == IF item.start = None \/ item.start = Some(0)
                         THEN 0 ELSE item.start[1]
                end == item.stop
            IN  /\ Build(NESpanInit(objs, self, Some(start), end, span_label))
                /\ ret' = Returned("subspan", self, << item, span_label >>,
                                   Len(objs) + 1)
       ELSE /\ UNCHANGED << objs, word_spans, tok_calls >>
            /\ ret' = Raised("subspan", self, << item, span_label >>,
                             "TypeError", "Item must be a slice")

Slice(a, b) == [is_slice |-> TRUE, start |-> a, stop |-> b]
NotASlice == [is_slice |-> FALSE, start |-> None, stop |-> None]

\* ------------------------------------------------------------ word spans

IsSpace(uc) == uc = " "

\* One token of the tokenizer's output: token.idx, len(token), token.is_space.
Token(start, stop, is_space) ==
    [idx |-> start, len |-> stop - start, is_space |-> is_space]

\* The tokenizer's scan of `string` from character i (0-based): a token ends
\* where whitespace starts or stops; one space after a word belongs to the
\* word (it is not a token), any further whitespace is a whitespace token.
RECURSIVE TokenizeFrom(_, _, _, _, _)
TokenizeFrom(string, i, start, in_ws, toks) ==
    IF i = Len(string)
    THEN IF start < i THEN Append(toks, Token(start, i, in_ws)) ELSE toks
    ELSE LET uc == string[i + 1] IN
         IF IsSpace(uc) # in_ws
         THEN TokenizeFrom(string, i + 1,
                           IF uc = " " THEN i + 1 ELSE i,
                           ~in_ws,
                           IF start < i
                           THEN Append(toks, Token(start, i, in_ws))
                           ELSE toks)
         ELSE TokenizeFrom(string, i + 1, start, in_ws, toks)

\* TOKENIZER(text): the language-agnostic tokenizer, on letters and spaces.
TOKENIZER(string) ==
    IF Len(string) = 0 THEN << >>
    ELSE TokenizeFrom(string, 0, 0, IsSpace(string[1]), << >>)

\* [(token.idx, token.idx+len(token)) for token in doc if not token.is_space]
RECURSIVE NonSpaceSpans(_)
\* Mutant: a word's end also covers the character after it.
NonSpaceSpans_EndPlusOne(doc) ==
    IF doc = << >> THEN << >>
    ELSE LET token == Head(doc) IN
         IF ~token.is_space
         THEN << << token.idx, token.idx + token.len + 1 >> >>
                  \o NonSpaceSpans(Tail(doc))
         ELSE NonSpaceSpans(Tail(doc))

\* Mutant: whitespace tokens are kept.
NonSpaceSpans_AllTokens(doc) ==
    IF doc = << >> THEN << >>
    ELSE << << Head(doc).idx, Head(doc).idx + Head(doc).len >> >>
             \o NonSpaceSpans(Tail(doc))

NonSpaceSpans(doc) ==
    IF doc = << >> THEN << >>
    ELSE LET token == Head(doc) IN
         IF ~token.is_space
         THEN << << token.idx, token.idx + token.len >> >>
                  \o NonSpaceSpans(Tail(doc))
         ELSE NonSpaceSpans(Tail(doc))

\* The body of the cached property __word_spans.
ComputeWordSpans(os, self) == NonSpaceSpans(TOKENIZER(text(os, self)))

\* Reading self.__word_spans: the cached value, computed on the first read.
WordSpansRead(self) ==
    IF word_spans[self] # None THEN word_spans[self][1]
    ELSE ComputeWordSpans(objs, self)

\* Mutant: a plain property, which tokenizes on every read.
CacheAfterRead_Always(ws, tc, self) ==
    << [ws EXCEPT ![self] = Some(ComputeWordSpans(objs, self))],
       [tc EXCEPT ![self] = @ + 1] >>

\* The cache after self.__word_spans was read; ws extends the cache list when
\* the same call also builds an object.
CacheAfterRead(ws, tc, self) ==
    IF ws[self] # None THEN << ws, tc >>
    ELSE << [ws EXCEPT ![self] = Some(ComputeWordSpans(objs, self))],
            [tc EXCEPT ![self] = @ + 1] >>

\* _Subspannable.word_length()
word_length(self) ==
    LET after == CacheAfterRead(word_spans, tok_calls, self) IN
    /\ objs' = objs
    /\ word_spans' = after[1]
    /\ tok_calls' = after[2]
    /\ ret' = Returned("word_length", self, << >>, Len(WordSpansRead(self)))

\* Mutant: the out-of-range test is ">=" instead of ">".
subspan_by_word_indices_Ge(self, word_slice) ==
    LET spans == WordSpansRead(self)
        word_span_slice == GetItem(spans, word_slice.start, word_slice.stop)
        after == CacheAfterRead(word_spans, tok_calls, self)
        start_char == IF word_span_slice = << >> THEN 0
                      ELSE word_span_slice[1][1]
        end_char == IF word_span_slice = << >> THEN 0
                    ELSE word_span_slice[Len(word_span_slice)][2]
    IN  IF /\ word_span_slice = << >>
           /\ word_slice.start # None
           /\ word_slice.start[1] >= Len(spans)
        THEN /\ objs' = objs
             /\ word_spans' = after[1]
             /\ tok_calls' = after[2]
             /\ ret' = Raised("subspan_by_word_indices", self,
                              << word_slice >>, "IndexError",
                              << word_slice, Len(spans) >>)
        ELSE /\ objs' = Append(objs,
                     NESpanInit(objs, self, Some(start_char),
                                Some(end_char), None))
             /\ word_spans' = Append(after[1], None)
             /\ tok_calls' = Append(after[2], 0)
             /\ ret' = Returned("subspan_by_word_indices", self,
                                << word_slice >>, Len(objs) + 1)

\* _Subspannable.subspan_by_word_indices(word_slice)
subspan_by_word_indices(self, word_slice) ==
    LET spans == WordSpansRead(self)
        word_span_slice == GetItem(spans, word_slice.start, word_slice.stop)
        after == CacheAfterRead(word_spans, tok_calls, self)
        out_of_range == /\ word_span_slice = << >>
                        /\ word_slice.start # None
                        /\ word_slice.start[1] > Len(spans)
        start_char == IF word_span_slice = << >> THEN 0
                      ELSE word_span_slice[1][1]
        end_char == IF word_span_slice = << >> THEN 0
                    ELSE word_span_slice[Len(word_span_slice)][2]
    IN  /\ IF out_of_range
           THEN /\ objs' = objs
                /\ word_spans' = after[1]
                /\ tok_calls' = after[2]
                /\ ret' = Raised("subspan_by_word_indices", self,
                                 << word_slice >>, "IndexError",
                                 << word_slice, Len(spans) >>)
           ELSE /\ objs' = Append(objs,
                        NESpanInit(objs, self, Some(start_char),
                                   Some(end_char), None))
                /\ word_spans' = Append(after[1], None)
                /\ tok_calls' = Append(after[2], 0)
                /\ ret' = Returned("subspan_by_word_indices", self,
                                   << word_slice >>, Len(objs) + 1)

\* ------------------------------------------------------------ NESpan reads

\* NESpan.range
range(os, self) == << os[self].start, os[self].end >>

\* NESpan.get_range_relative_to_doc: the loop from parent_span on.
RECURSIVE WalkToDoc(_, _, _, _)
\* Mutant: only the immediate owner's start is added.
WalkToDoc_Once(os, parent_span, start, end) ==
    IF IsSpan(os[parent_span])
    THEN << start + os[parent_span].start, end + os[parent_span].start >>
    ELSE << start, end >>

WalkToDoc(os, parent_span, start, end) ==
    IF IsSpan(os[parent_span])
    THEN WalkToDoc(os, os[parent_span].doc,
                   start + range(os, parent_span)[1],
                   end + range(os, parent_span)[1])
    ELSE << start, end >>

get_range_relative_to_doc(os, self) ==
    WalkToDoc(os, os[self].doc, range(os, self)[1], range(os, self)[2])

\* Mutant: the label is left out of the hashed tuple.
HashKey_NoLabel(os, self) ==
    << text(os, os[self].doc), os[self].start, os[self].end >>

\* The tuple NESpan.__hash__ hashes.
HashKey(os, self) ==
    << text(os, os[self].doc), os[self].start, os[self].end, os[self].label >>

\* Mutant: the serialized range is the one relative to the root Document.
serialize_DocRange(os, self, with_text) ==
    IF with_text
    THEN [range |-> get_range_relative_to_doc(os, self),
          label |-> os[self].label, text |-> text(os, self)]
    ELSE [range |-> get_range_relative_to_doc(os, self),
          label |-> os[self].label]

\* NESpan.serialize(with_text)
serialize(os, self, with_text) ==
    IF with_text
    THEN [range |-> range(os, self), label |-> os[self].label,
          text |-> text(os, self)]
    ELSE [range |-> range(os, self), label |-> os[self].label]

\* A call that reads and returns, leaving every object as it is.
Read(op, self, args, val) ==
    /\ UNCHANGED << objs, word_spans, tok_calls >>
    /\ ret' = Returned(op, self, args, val)

CallText(self) == Read("text", self, << >>, text(objs, self))

CallRange(self) ==
    /\ IsSpan(objs[self])
    /\ Read("range", self, << >>, range(objs, self))

CallGetRangeRelativeToDoc(self) ==
    /\ IsSpan(objs[self])
    /\ Read("get_range_relative_to_doc", self, << >>,
            get_range_relative_to_doc(objs, self))

CallHash(self) ==
    /\ IsSpan(objs[self])
    /\ Read("__hash__", self, << >>, HashKey(objs, self))

CallSerialize(self, with_text) ==
    /\ IsSpan(objs[self])
    /\ Read("serialize", self, << with_text >>,
            serialize(objs, self, with_text))

\* ------------------------------------------------------------ label enums

LABEL_TO_REF_PART_TYPE_ATTR ==
    [l \in {"כותרת", "מספר", "דה", "סימן-טווח", "לקמן-להלן", "שם", "לא-רציף",
            "title", "number", "DH", "range-symbol", "dir-ibid", "ibid",
            "non-cts"} |->
        CASE l \in {"כותרת", "title"} -> "NAMED"
          [] l \in {"מספר", "number"} -> "NUMBERED"
          [] l \in {"דה", "DH"} -> "DH"
          [] l \in {"סימן-טווח", "range-symbol"} -> "RANGE_SYMBOL"
          [] l \in {"לקמן-להלן", "dir-ibid"} -> "RELATIVE"
          [] l \in {"שם", "ibid"} -> "IBID"
          [] l \in {"לא-רציף", "non-cts"} -> "NON_CTS"]

LABEL_TO_NAMED_ENTITY_TYPE_ATTR ==
    [l \in {"מקור", "בן-אדם", "קבוצה", "Person", "Group", "Citation"} |->
        CASE l \in {"מקור", "Citation"} -> "CITATION"
          [] l \in {"בן-אדם", "Person"} -> "PERSON"
          [] l \in {"קבוצה", "Group"} -> "GROUP"]

\* The enumerations: member name |-> member value.
NamedEntityType ==
    [PERSON |-> "person", GROUP |-> "group", CITATION |-> "citation"]

RefPartType ==
    [NAMED |-> "named", NUMBERED |-> "numbered", DH |-> "dibur_hamatchil",
     RANGE_SYMBOL |-> "range_symbol", RANGE |-> "range",
     RELATIVE |-> "relative", IBID |-> "ibid", NON_CTS |-> "non_cts"]

Classes == {"NamedEntityType", "RefPartType"}
EnumOf(cls) == IF cls = "NamedEntityType" THEN NamedEntityType ELSE RefPartType
TableOf(cls) ==
    IF cls = "NamedEntityType" THEN LABEL_TO_NAMED_ENTITY_TYPE_ATTR
    ELSE LABEL_TO_REF_PART_TYPE_ATTR

\* getattr(cls, attr): the member of cls named attr.
Member(cls, attr) == [cls |-> cls, name |-> attr, value |-> EnumOf(cls)[attr]]

\* Mutant: an unknown label falls back to the table's first member.
span_label_to_enum_Default(cls, span_label) ==
    /\ UNCHANGED << objs, word_spans, tok_calls >>
    /\ ret' = Returned("span_label_to_enum", 0, << cls, span_label >>,
                       Member(cls,
                              IF span_label \in DOMAIN TableOf(cls)
                              THEN TableOf(cls)[span_label]
                              ELSE IF cls = "RefPartType" THEN "NAMED"
                                   ELSE "CITATION"))

\* cls.span_label_to_enum(span_label): the table lookup raises KeyError for a
\* string that is no key.
span_label_to_enum(cls, span_label) ==
    /\ UNCHANGED << objs, word_spans, tok_calls >>
    /\ IF span_label \in DOMAIN TableOf(cls)
       THEN ret' = Returned("span_label_to_enum", 0, << cls, span_label >>,
                            Member(cls, TableOf(cls)[span_label]))
       ELSE ret' = Raised("span_label_to_enum", 0, << cls, span_label >>,
                          "KeyError", span_label)

\* ------------------------------------------------------------ specifications

NoCall == Returned("start", 0, << >>, 0)

\* The heap `os` with nothing cached and no call made yet.
Heap(os) ==
    /\ objs = os
    /\ word_spans = [i \in 1..Len(os) |-> None]
    /\ tok_calls = [i \in 1..Len(os) |-> 0]
    /\ ret = NoCall

\* Room for one more object.
Room(cap) == Len(objs) < cap

Receivers == 1..Len(objs)
Last == {Len(objs)} \ {0}

\* --- Spec: any sequence of operations on a few Documents and Spans.

MainTexts == {<< "a", " ", "a" >>, << " ", "a" >>}
MainOffsets == {None, Some(-1), Some(1), Some(2)}
MainItems ==
    {Slice(a, b) : a \in MainOffsets, b \in MainOffsets} \cup {NotASlice}
MainWordSlices ==
    {Slice(a, b) : a \in {None, Some(1), Some(MaxOff)}, b \in {None, Some(1)}}

Init == Heap(<< >>)

Next ==
    \/ \E t \in MainTexts : Room(MaxObjs) /\ NewDoc(t)
    \/ \E self \in Receivers, item \in MainItems, l \in Labels :
          Room(MaxObjs) /\ subspan(self, item, l)
    \/ \E self \in Receivers, ws \in MainWordSlices :
          Room(MaxObjs) /\ subspan_by_word_indices(self, ws)
    \/ \E self \in Receivers : word_length(self)
    \/ \E self \in Receivers : CallText(self)
    \/ \E self \in Receivers : CallRange(self)
    \/ \E self \in Receivers : CallGetRangeRelativeToDoc(self)
    \/ \E self \in Receivers : CallHash(self)
    \/ \E self \in Receivers, with_text \in BOOLEAN :
          CallSerialize(self, with_text)

Spec == Init /\ [][Next]_vars

\* --- SpecSlice: character slices of every shape, taken of a Document and
\* of the Span that drops its first character.

SliceText == << "a", "b", "c" >>
SliceHeap ==
    << NEDocInit(SliceText),
       NESpanInit(<< NEDocInit(SliceText) >>, 1, Some(1), None, None) >>
SliceItems == {Slice(a, b) : a \in Offsets, b \in Offsets}

InitSlice == Heap(SliceHeap)

NextSlice ==
    \/ \E self \in Receivers, item \in SliceItems, l \in Labels :
          Room(MaxSliceObjs) /\ subspan(self, item, l)
    \/ \E self \in Receivers : CallText(self)
    \/ \E self \in Receivers, with_text \in BOOLEAN :
          CallSerialize(self, with_text)

SpecSlice == InitSlice /\ [][NextSlice]_vars

\* --- SpecHash: Spans hashed under two Documents, the second holding the
\* text of a Span of the first: "ab" <- [1:] and "b" <- [1:].

HashText == << "a", "b" >>
HashHeap ==
    LET d1 == NEDocInit(HashText)
        d2 == NEDocInit(Tail(HashText))
    IN  << d1, NESpanInit(<< d1 >>, 1, Some(1), None, None),
           d2, NESpanInit(<< d1, d1, d2 >>, 3, Some(1), None, None) >>
HashOffsets == {None, Some(1), Some(2)}
HashItems == {Slice(a, b) : a \in HashOffsets, b \in HashOffsets}

InitHash == Heap(HashHeap)

NextHash ==
    \/ \E self \in Receivers, item \in HashItems, l \in Labels :
          Room(MaxHashObjs) /\ subspan(self, item, l)
    \/ \E self \in Receivers : CallHash(self)

SpecHash == InitHash /\ [][NextHash]_vars

\* --- SpecNest: a chain of Spans, each sliced from the one built last.

NestText == << "a", "b", "c", "d" >>
NestStarts == {None, Some(-1), Some(1), Some(2)}
NestStops == {None, Some(1), Some(2), Some(3)}
NestItems == {Slice(a, b) : a \in NestStarts, b \in NestStops}

InitNest == Heap(<< NEDocInit(NestText) >>)

NextNest ==
    \/ \E self \in Last, item \in NestItems :
          Room(MaxDepth + 1) /\ subspan(self, item, None)
    \/ \E self \in Receivers : CallGetRangeRelativeToDoc(self)

SpecNest == InitNest /\ [][NextNest]_vars

\* --- SpecWords: word slices of every shape, taken of every short Document
\* and of the Span that drops its first character.

\* Word indices: omitted, negative, in range and past the last word.
WordIndices == {None, Some(-1), Some(0), Some(1), Some(2), Some(3)}
WordSlices == {Slice(a, b) : a \in WordIndices, b \in WordIndices}

\* A Document, alone or with the Span doc.subspan(slice(1, None)).
WordHeaps ==
    {<< NEDocInit(t) >> : t \in Texts}
    \cup {<< NEDocInit(t), NESpanInit(<< NEDocInit(t) >>, 1, Some(1), None, None) >> :
             t \in Texts}

InitWords == \E os \in WordHeaps : Heap(os)

NextWords ==
    \/ \E self \in Receivers, ws \in WordSlices :
          Room(MaxWordObjs) /\ subspan_by_word_indices(self, ws)
    \/ \E self \in Receivers : word_length(self)

SpecWords == InitWords /\ [][NextWords]_vars

\* --- SpecLabels: label strings translated by either enumeration.

\* Every key of both tables, every member name and value, and near misses.
LabelInputs ==
    DOMAIN LABEL_TO_REF_PART_TYPE_ATTR
    \cup DOMAIN LABEL_TO_NAMED_ENTITY_TYPE_ATTR
    \cup DOMAIN RefPartType \cup DOMAIN NamedEntityType
    \cup {RefPartType[m] : m \in DOMAIN RefPartType}
    \cup {NamedEntityType[m] : m \in DOMAIN NamedEntityType}
    \cup {"unknown-xyz", "", "Title", "Number", "dh", "Ibid", "Dir-Ibid",
          "Non-Cts", "Range-Symbol", " title", "title ", "range symbol"}

InitLabels == Heap(<< >>)

NextLabels ==
    \/ \E l \in LabelInputs : span_label_to_enum("NamedEntityType", l)
    \/ \E l \in LabelInputs : span_label_to_enum("RefPartType", l)

SpecLabels == InitLabels /\ [][NextLabels]_vars

\* ------------------------------------------------------------ claims

Spans(os) == {i \in 1..Len(os) : IsSpan(os[i])}

\* Number of Spans between object i and its root Document, i included.
RECURSIVE Depth(_, _)
Depth(os, i) == IF IsDoc(os[i]) THEN 0 ELSE 1 + Depth(os, os[i].doc)

\* The root Document of object i.
RECURSIVE RootOf(_, _)
RootOf(os, i) == IF IsDoc(os[i]) THEN i ELSE RootOf(os, os[i].doc)

\* Sum of the start offsets of object i and of every ancestor Span.
RECURSIVE SumStarts(_, _)
SumStarts(os, i) ==
    IF IsDoc(os[i]) THEN 0 ELSE os[i].start + SumStarts(os, os[i].doc)

\* T[a:b] told position by position: the characters at the 0-based positions
\* p with lo <= p < hi, where a negative bound counts from the end and both
\* bounds are clipped to 0..len(T).
Clip(k, n) ==
    LET m == IF k < 0 THEN k + n ELSE k
    IN  IF m < 0 THEN 0 ELSE IF m > n THEN n ELSE m

RefSlice(T, a, b) ==
    LET lo == Clip(a, Len(T))
        kept == {p \in 1..Len(T) : lo < p /\ p <= Clip(b, Len(T))}
    IN  [k \in 1..Cardinality(kept) |-> T[lo + k]]

InBounds(os, i) ==
    /\ 0 <= os[i].start
    /\ os[i].start <= os[i].end
    /\ os[i].end <= Len(text(os, os[i].doc))

\* Span i and every ancestor Span lie within their immediate owner's text.
RECURSIVE ChainInBounds(_, _)
ChainInBounds(os, i) ==
    IsDoc(os[i]) \/ (InBounds(os, i) /\ ChainInBounds(os, os[i].doc))

\* The words of T: the maximal runs of non-space characters, as 0-based
\* (char_start, char_end) pairs in text order.
Runs(T) ==
    {r \in (0..Len(T)) \X (0..Len(T)) :
        /\ r[1] < r[2]
        /\ \A p \in (r[1] + 1)..r[2] : T[p] # " "
        /\ r[1] = 0 \/ T[r[1]] = " "
        /\ r[2] = Len(T) \/ T[r[2] + 1] = " "}

\* The number of words of T: the positions where a run of non-space
\* characters begins.
WordCount(T) ==
    Cardinality({p \in 1..Len(T) :
                    T[p] # " " /\ (p = 1 \/ T[p - 1] = " ")})

RefWords(T) ==
    [k \in 1..Cardinality(Runs(T)) |->
        CHOOSE r \in Runs(T) :
            Cardinality({q \in Runs(T) : q[1] < r[1]}) = k - 1]

\* C1: get_range_relative_to_doc() of a Span at the end of a chain
\* Document <- S1 <- ... <- Sn returns (a1 + ... + an, a1 + ... + a(n-1) + bn):
\* every ancestor's start is added once and the walk stops at the Document;
\* written out for depths 1, 2 and 3, where S2 in S1 gives (a + c, a + d).
C1_RangeRelativeToDoc ==
    /\ \A i \in Spans(objs) :
          LET s == objs[i]
              p == objs[s.doc]
              r == get_range_relative_to_doc(objs, i)
          IN  /\ r = << SumStarts(objs, i),
                        SumStarts(objs, s.doc) + s.end >>
              /\ Depth(objs, i) = 1 => r = << s.start, s.end >>
              /\ Depth(objs, i) = 2 =>
                    r = << p.start + s.start, p.start + s.end >>
              /\ Depth(objs, i) = 3 =>
                    r = << objs[p.doc].start + p.start + s.start,
                           objs[p.doc].start + p.start + s.end >>
    /\ ret.op = "get_range_relative_to_doc" =>
          ret.val = << SumStarts(objs, ret.self),
                       SumStarts(objs, objs[ret.self].doc)
                           + objs[ret.self].end >>

\* A depth-3 Span whose ancestors all start past 0 was asked for its range.
C1_Witness ==
    /\ ret.op = "get_range_relative_to_doc"
    /\ Depth(objs, ret.self) = 3
    /\ \A i \in Spans(objs) : objs[i].start > 0
    /\ ret.val[1] = objs[2].start + objs[3].start + objs[4].start

\* C2 as claimed: two Spans have the same hash key iff they share the same
\* root Document text, the same (start, end) and the same label.
C2_HashByRootText ==
    \A i, j \in Spans(objs) :
        HashKey(objs, i) = HashKey(objs, j)
        <=> /\ text(objs, RootOf(objs, i)) = text(objs, RootOf(objs, j))
            /\ range(objs, i) = range(objs, j)
            /\ objs[i].label = objs[j].label

\* C2 amended: two Spans have the same hash key iff their immediate owners
\* have the same text and they have the same (start, end) and the same label.
C2_HashByOwnerText ==
    /\ \A i, j \in Spans(objs) :
          HashKey(objs, i) = HashKey(objs, j)
          <=> /\ text(objs, objs[i].doc) = text(objs, objs[j].doc)
              /\ objs[i].start = objs[j].start
              /\ objs[i].end = objs[j].end
              /\ objs[i].label = objs[j].label
    /\ ret.op = "__hash__" => ret.val = HashKey(objs, ret.self)

\* A Span was hashed that has the key of a Span under the other Document,
\* their owners being a Span and a Document with the same text.
C2_Witness ==
    /\ ret.op = "__hash__"
    /\ \E j \in Spans(objs) :
          /\ RootOf(objs, j) # RootOf(objs, ret.self)
          /\ IsSpan(objs[objs[ret.self].doc])
          /\ IsDoc(objs[objs[j].doc])
          /\ HashKey(objs, j) = ret.val

\* C3 as claimed: every Span satisfies 0 <= start <= end <= len(owner.text).
C3_AllSpansInBounds == \A i \in Spans(objs) : InBounds(objs, i)

\* C3 amended: a Span returned by subspan_by_word_indices, or by subspan
\* with both slice bounds omitted, satisfies
\* 0 <= start <= end <= len(owner.text); other Spans need not.
C3_WordSpansInBounds ==
    /\ (ret.op = "subspan_by_word_indices" /\ ret.exc = "none")
          => InBounds(objs, ret.val)
    /\ (ret.op = "subspan" /\ ret.exc = "none"
            /\ ret.args[1] = Slice(None, None))
          => InBounds(objs, ret.val)

\* subspan_by_word_indices returned a non-empty Span that starts past 0.
C3_Witness ==
    /\ ret.op = "subspan_by_word_indices"
    /\ ret.exc = "none"
    /\ 0 < objs[ret.val].start
    /\ objs[ret.val].start < objs[ret.val].end

\* C4: X.subspan(slice(a, b), label) is a Span owned by X with the given
\* label, range (a, b) and text T[a:b]; an omitted start is 0, an omitted
\* end is len(T), and an explicit end of 0 stays 0.
C4_Subspan ==
    (ret.op = "subspan" /\ ret.exc = "none") =>
        LET X == ret.self
            item == ret.args[1]
            T == text(objs, X)
            a == IF item.start = None THEN 0 ELSE item.start[1]
            b == IF item.stop = None THEN Len(T) ELSE item.stop[1]
            S == objs[ret.val]
        IN  /\ ret.val = Len(objs)
            /\ IsSpan(S)
            /\ S.doc = X
            /\ S.label = ret.args[2]
            /\ range(objs, ret.val) = << a, b >>
            /\ text(objs, ret.val) = RefSlice(T, a, b)
            /\ item.stop = Some(0) => S.end = 0

\* A labelled slice with both bounds omitted, taken of a Span of two
\* characters.
C4_Witness ==
    /\ ret.op = "subspan"
    /\ ret.exc = "none"
    /\ IsSpan(objs[ret.self])
    /\ ret.args = << Slice(None, None), Some("title") >>
    /\ range(objs, ret.val) = << 0, 2 >>
    /\ text(objs, ret.val) = << "b", "c" >>

\* C5: a word slice [i, j) that selects the words wi..w(j-1) of X gives a
\* Span owned by X with range (wi.char_start, w(j-1).char_end), relative to
\* X.text; the words are the runs of non-space characters, and word_length
\* counts exactly those.
C5_WordSlice ==
    /\ (ret.op = "subspan_by_word_indices" /\ ret.exc = "none") =>
          LET X == ret.self
              w == RefWords(text(objs, X))
              ws == ret.args[1]
              i == Clip(IF ws.start = None THEN 0 ELSE ws.start[1], Len(w))
              j == Clip(IF ws.stop = None THEN Len(w) ELSE ws.stop[1], Len(w))
          IN  i < j =>
                /\ IsSpan(objs[ret.val])
                /\ objs[ret.val].doc = X
                /\ range(objs, ret.val) = << w[i + 1][1], w[j][2] >>
    /\ ret.op = "word_length" =>
          ret.val = Len(RefWords(text(objs, ret.self)))

\* The first word was taken of a Span whose text starts with a space.
C5_Witness ==
    /\ ret.op = "subspan_by_word_indices"
    /\ ret.exc = "none"
    /\ IsSpan(objs[ret.self])
    /\ text(objs, ret.self) = << " ", "a" >>
    /\ ret.args[1] = Slice(Some(0), Some(1))
    /\ range(objs, ret.val) = << 1, 2 >>

\* C6: a word slice that selects no words of an object with n words raises
\* IndexError, naming the slice and n, exactly when word_start is given and
\* word_start > n; otherwise it returns a Span with range (0, 0); the error
\* path builds no Span.
C6_EmptyWordSlice ==
    [][ret'.op = "subspan_by_word_indices" =>
          \A n \in {WordCount(text(objs, ret'.self))} :
          \A i \in {Clip(IF ret'.args[1].start = None
                         THEN 0 ELSE ret'.args[1].start[1], n)} :
          \A j \in {Clip(IF ret'.args[1].stop = None
                         THEN n ELSE ret'.args[1].stop[1], n)} :
              LET ws == ret'.args[1]
                  beyond == ws.start # None /\ ws.start[1] > n
              IN  /\ ret'.exc \in {"none", "IndexError"}
                  /\ ret'.exc = "IndexError" <=> (i >= j /\ beyond)
                  /\ ret'.exc = "IndexError" =>
                        /\ objs' = objs
                        /\ ret'.val = << ws, n >>
                  /\ (i >= j /\ ~beyond) =>
                        /\ Len(objs') = Len(objs) + 1
                        /\ ret'.val = Len(objs')
                        /\ range(objs', ret'.val) = << 0, 0 >>]_vars

\* An IndexError for word_start = 3 on a text of two words.
C6_Witness ==
    /\ ret.op = "subspan_by_word_indices"
    /\ ret.exc = "IndexError"
    /\ ret.val = << Slice(Some(3), None), 2 >>

\* C7: span_label_to_enum returns, for every key of the class's table, the
\* member the table names, raises KeyError for every other string, never
\* substitutes a default, and never returns RefPartType.RANGE.
C7_LabelToEnum ==
    ret.op = "span_label_to_enum" =>
        LET cls == ret.args[1]
            l == ret.args[2]
            keys == IF cls = "RefPartType"
                    THEN {"כותרת", "מספר", "דה", "סימן-טווח", "לקמן-להלן",
                          "שם", "לא-רציף", "title", "number", "DH",
                          "range-symbol", "dir-ibid", "ibid", "non-cts"}
                    ELSE {"מקור", "בן-אדם", "קבוצה",
                          "Person", "Group", "Citation"}
        IN  /\ l \in keys <=> ret.exc = "none"
            /\ l \notin keys <=> ret.exc = "KeyError"
            /\ ret.exc = "none" =>
                  /\ ret.val.cls = cls
                  /\ ret.val.name = TableOf(cls)[l]
                  /\ ret.val.name \in DOMAIN EnumOf(cls)
                  /\ ret.val.value = EnumOf(cls)[ret.val.name]
                  /\ ret.val.name # "RANGE"
            /\ (cls = "NamedEntityType" /\ l \in {"Citation", "מקור"}) =>
                  ret.val.value = "citation"
            /\ (cls = "RefPartType" /\ l \in {"title", "כותרת"}) =>
                  ret.val.value = "named"

\* A Hebrew key was translated by RefPartType.
C7_Witness ==
    /\ ret.op = "span_label_to_enum"
    /\ ret.args = << "RefPartType", "סימן-טווח" >>
    /\ ret.exc = "none"
    /\ ret.val.value = "range_symbol"

\* C8: serialize(with_text=True) yields range, label and text, the range
\* being relative to the immediate owner, and the owner's text sliced by
\* that range is the serialized text; without with_text there is no text.
C8_Serialize ==
    ret.op = "serialize" =>
        LET S == objs[ret.self]
            d == ret.val
        IN  /\ d.range = << S.start, S.end >>
            /\ d.label = S.label
            /\ IF ret.args[1]
               THEN /\ DOMAIN d = {"range", "label", "text"}
                    /\ d.text = RefSlice(text(objs, S.doc),
                                         d.range[1], d.range[2])
               ELSE DOMAIN d = {"range", "label"}

\* A Span of a Span whose end lies past its owner's text was serialized
\* with its text.
C8_Witness ==
    /\ ret.op = "serialize"
    /\ ret.args[1]
    /\ Depth(objs, ret.self) = 2
    /\ objs[ret.self].start = 1
    /\ objs[ret.self].end > Len(text(objs, objs[ret.self].doc))
    /\ ret.val.text = << "c" >>

\* C9: no operation changes the text of a Document or the owner, start, end
\* or label of a Span already built; an operation may only fill the word-span
\* cache of its receiver, once per instance (one tokenizer call), and a new
\* object starts with an empty cache of its own.
C9_Frame ==
    [][/\ Len(objs') >= Len(objs)
       /\ \A i \in 1..Len(objs) :
             /\ objs'[i] = objs[i]
             /\ text(objs', i) = text(objs, i)
             /\ tok_calls'[i] >= tok_calls[i]
             /\ word_spans'[i] # word_spans[i] =>
                   /\ word_spans[i] = None
                   /\ i = ret'.self
                   /\ ret'.op \in {"word_length", "subspan_by_word_indices"}
                   /\ word_spans'[i] = Some(RefWords(text(objs, i)))
       /\ \A i \in 1..Len(objs') :
             /\ tok_calls'[i] <= 1
             /\ tok_calls'[i] = 1 <=> word_spans'[i] # None
             /\ i > Len(objs) => word_spans'[i] = None]_vars

\* A Document and its Span each hold a cache of their own, filled once.
C9_Witness ==
    /\ Len(objs) = 2
    /\ IsSpan(objs[2])
    /\ tok_calls = << 1, 1 >>
    /\ word_spans[1] # word_spans[2]
    /\ ret.op = "word_length"
    /\ ret.self = 2

\* C10: when a Span and every ancestor Span lie within their owner's text,
\* the root Document's text sliced by get_range_relative_to_doc() is the
\* Span's text.
C10_RootSliceIsText ==
    \A i \in Spans(objs) :
        ChainInBounds(objs, i) =>
            LET r == get_range_relative_to_doc(objs, i)
            IN  RefSlice(text(objs, RootOf(objs, i)), r[1], r[2])
                    = text(objs, i)

\* A depth-3 chain within bounds whose innermost Span is the one character
\* at root offset 2.
C10_Witness ==
    \E i \in Spans(objs) :
        /\ Depth(objs, i) = 3
        /\ ChainInBounds(objs, i)
        /\ \A j \in Spans(objs) : objs[j].start > 0 \/ j = 3
        /\ text(objs, i) = << "c" >>
        /\ get_range_relative_to_doc(objs, i) = << 2, 3 >>
====
